---------------------------- MODULE Spec2Model ----------------------------
(***************************************************************************)
(* A model of kvstore.py: an in-memory dict `store` rebuilt at start-up    *)
(* from the append-only text log data.db (load_store), extended by         *)
(* save_set (append the line, flush, fsync, close, then update the dict)   *)
(* and read by get_value.                                                  *)
(*                                                                         *)
(* Strings are sequences of one-character strings, so that str.strip,      *)
(* str.split(None, 2), str.startswith and the line iteration of a text     *)
(* file are computed character by character as Python computes them.       *)
(***************************************************************************)
EXTENDS Naturals, Sequences, FiniteSets

(***************************************************************************)
(* Bounds of the model.                                                    *)
(***************************************************************************)
MaxEvents == 3     \* save_set calls, I/O errors (OSError), process kills and
                   \* power losses in one behaviour, counted together
MaxLines == 3      \* lines of a log handed to the replay specification

(***************************************************************************)
(* Python strings.                                                         *)
(***************************************************************************)
\* str.isspace for the characters of the model (a subset of Python's).
IsSpace(c) == c \in {" ", "\t", "\n", "\r"}

RECURSIVE lstrip(_)
lstrip(s) == IF s # << >> /\ IsSpace(Head(s)) THEN lstrip(Tail(s)) ELSE s

RECURSIVE rstrip(_)
rstrip(s) ==
    IF s # << >> /\ IsSpace(s[Len(s)]) THEN rstrip(SubSeq(s, 1, Len(s) - 1)) ELSE s

\* str.strip(): leading and trailing whitespace removed.
strip(s) == rstrip(lstrip(s))

\* Length of the leading run of non-whitespace characters of s.
RECURSIVE TokenLen(_)
TokenLen(s) == IF s = << >> \/ IsSpace(Head(s)) THEN 0 ELSE 1 + TokenLen(Tail(s))

\* str.split(None, maxsplit): runs of whitespace separate the fields, leading
\* whitespace is dropped, and after maxsplit fields the rest of the string is
\* the last field, its leading whitespace dropped and nothing else.
RECURSIVE split(_, _)
split(s, maxsplit) ==
    LET t == lstrip(s) IN
    IF t = << >> THEN << >>
    ELSE IF maxsplit = 0 THEN << t >>
    ELSE LET n == TokenLen(t) IN
         << SubSeq(t, 1, n) >> \o split(SubSeq(t, n + 1, Len(t)), maxsplit - 1)

\* str.startswith(prefix).
startswith(s, prefix) ==
    Len(s) >= Len(prefix) /\ SubSeq(s, 1, Len(prefix)) = prefix

\* Index of the first line terminator of s, or 0.  A text file opened with
\* the default newline=None ends a line at "\n", "\r" and "\r\n".
RECURSIVE FirstNewline(_, _)
FirstNewline(s, i) ==
    IF i > Len(s) THEN 0
    ELSE IF s[i] \in {"\n", "\r"} THEN i
    ELSE FirstNewline(s, i + 1)

\* `for line in f`: the lines of the file content in file order, the
\* terminator dropped (load_store strips every line, and a terminator is
\* whitespace); a last line without terminator is a line too.  "\r\n" gives
\* one more empty line here than in Python, which load_store skips.
RECURSIVE Lines(_)
Lines(content) ==
    IF content = << >> THEN << >>
    ELSE LET n == FirstNewline(content, 1) IN
         IF n = 0 THEN << content >>
         ELSE << SubSeq(content, 1, n - 1) >>
                  \o Lines(SubSeq(content, n + 1, Len(content)))

(***************************************************************************)
(* Program constants.                                                      *)
(***************************************************************************)
CMD_SET == << "S", "E", "T" >>
CMD_GET == << "G", "E", "T" >>
CMD_EXIT == << "E", "X", "I", "T" >>

\* Python's None, the result of dict.get for a missing key.  It is a
\* sequence whose one element is no character, so it differs from every
\* string, the empty string and "NULL" included.
None == << "None" >>

\* The string "NULL", the placeholder of an earlier variant of get_value.
NULL == << "N", "U", "L", "L" >>

(***************************************************************************)
(* The dict `store`: a function from the keys present to their values.     *)
(***************************************************************************)
EmptyStore == << >>

\* store[key] = value
SetItem(st, key, value) ==
    [x \in (DOMAIN st) \cup {key} |-> IF x = key THEN value ELSE st[x]]

\* dict.get(key): the value, or None.
DictGet(st, key) == IF key \in DOMAIN st THEN st[key] ELSE None


(***************************************************************************)
(* The record codec, as load_store and save_set compute it.                *)
(***************************************************************************)
\* The text save_set writes: f"{CMD_SET} {key} {value}\n".
Record(key, value) == CMD_SET \o << " " >> \o key \o << " " >> \o value \o << "\n" >>

\* The loop body without the test of the "SET " prefix: any line of three
\* fields is applied.
load_line_any(st, raw) ==
    LET parts == split(strip(raw), 2) IN
    IF Len(parts) = 3 THEN SetItem(st, parts[2], parts[3]) ELSE st

\* The body of load_store's loop for one line of the file: the line is
\* stripped; it is applied only if it starts with "SET " and splits into
\* three fields, the third being the rest of the line.
load_line(st, raw) ==
    LET line == strip(raw) IN
    IF startswith(line, CMD_SET \o << " " >>)
    THEN LET parts == split(line, 2) IN
         IF Len(parts) = 3 THEN SetItem(st, parts[2], parts[3]) ELSE st
    ELSE st

\* The whole loop: a left-to-right fold of load_line over the lines.
RECURSIVE load_lines(_, _)
load_lines(st, lines) ==
    IF lines = << >> THEN st
    ELSE load_lines(load_line(st, Head(lines)), Tail(lines))

\* The keys load_store assigns while reading one line (none or one).
LineKeys(raw) == DOMAIN load_line(EmptyStore, raw)

(***************************************************************************)
(* Arguments handed to save_set and get_value by a caller.  save_set does  *)
(* not inspect its arguments, so keys with a space and values with a       *)
(* leading space are among them.                                           *)
(***************************************************************************)
KeyArgs == { << "a" >>, << "b" >>, << "a", " ", "b" >> }
ValueArgs == { << "1", " ", "2" >>, << " ", "2" >>, NULL }

(***************************************************************************)
(* State.                                                                  *)
(***************************************************************************)
VARIABLES
    exists,     \* os.path.exists(DATA_FILE)
    content,    \* the characters of data.db as the operating system holds them
    synced,     \* length of the prefix of content that is on stable storage
    store,      \* the module-level dict
    pc,         \* where the process is: "start" (before load_store), "ld_loop",
                \* "ready" (between operations), or a step of save_set
    handle,     \* the open file object: "none", "r" (load_store), "a" (save_set)
    todo,       \* load_store: the lines of the file not yet read
    buf,        \* save_set: characters written to the file object, not yet to the file
    arg,        \* save_set: its arguments
    nev,        \* events counted against MaxEvents
    nfault,     \* those of them that are I/O errors, kills and power losses
    \* History, read only by the properties:
    last,       \* the operation that completed last, until the next one begins
    call,       \* store and content when save_set was called, until the next
                \* operation after it completes
    acked,      \* key -> value of its last save_set that updated store, dropped
                \* when a later save_set for the key puts characters in the file
    applied,    \* keys assigned in store by this process
    cur, prior, \* load_store: the line read last and store before it
    lastLoad,   \* content and store at the end of the last run of load_store
                \* that read the whole file
    recov,      \* this process: how many times load_store returned, and
                \* whether it returned without printing an error
    puts,       \* the (key, value) pairs of the save_set calls that updated
                \* store, and of those that ended in the except clause
    input,      \* command loop: the line input() returned last, None when
                \* it raised EOFError
    exited      \* command loop: store when the last process left the loop

vars == << exists, content, synced, store, pc, handle, todo, buf, arg,
           nev, nfault, last, call, acked, applied, cur, prior, lastLoad,
           recov, puts, input, exited >>

NoArg == [key |-> << >>, value |-> << >>]
NoOp == [op |-> "none", key |-> << >>, value |-> << >>, ok |-> TRUE,
         ret |-> None, raised |-> FALSE]
NoCall == [store |-> EmptyStore, content |-> << >>]
NoLoad == [valid |-> FALSE, log |-> << >>, idx |-> EmptyStore]
NoRecov == [runs |-> 0, ok |-> TRUE]
NoPuts == [ok |-> {}, failed |-> {}]
NoExit == [valid |-> FALSE, idx |-> EmptyStore]

\* A process that starts with the dict of the process before it.
StaleStore == store

\* Line 13, executed when a process loads the module: store = {}.
FreshStore == EmptyStore

\* get_value with the placeholder of the earlier variant:
\* store.get(key, 'NULL').
get_value_null(key) == IF key \in DOMAIN store THEN store[key] ELSE NULL

\* get_value(key): store.get(key).
get_value(key) == DictGet(store, key)

\* A function without the key k.
Without(f, k) == [x \in (DOMAIN f) \ {k} |-> f[x]]

(***************************************************************************)
(* Initial state: a first process on a machine without data.db.            *)
(***************************************************************************)
Init ==
    /\ exists = FALSE
    /\ content = << >>
    /\ synced = 0
    /\ store = EmptyStore
    /\ pc = "start"
    /\ handle = "none"
    /\ todo = << >>
    /\ buf = << >>
    /\ arg = NoArg
    /\ nev = 0
    /\ nfault = 0
    /\ last = NoOp
    /\ call = NoCall
    /\ acked = EmptyStore
    /\ applied = {}
    /\ cur = None
    /\ prior = EmptyStore
    /\ lastLoad = NoLoad
    /\ recov = NoRecov
    /\ puts = NoPuts
    /\ input = None
    /\ exited = NoExit

LoadResult(clean) ==
    [op |-> "load", key |-> << >>, value |-> << >>, ok |-> clean,
     ret |-> None, raised |-> FALSE]

(***************************************************************************)
(* load_store, called once by __main__ before the command loop.            *)
(***************************************************************************)
\* load_store without the test of lines 25-26: open raises
\* FileNotFoundError, an OSError, and lines 37-38 print it.
LoadStoreMissingFails ==
    /\ pc = "start"
    /\ ~exists
    /\ pc' = "ready"
    /\ last' = LoadResult(FALSE)
    /\ recov' = [runs |-> recov.runs + 1, ok |-> FALSE]
    /\ UNCHANGED << exists, content, synced, store, handle, todo, buf, arg,
                    nev, call, acked, applied, cur, prior, lastLoad, nfault,
                    puts, input, exited >>

\* Lines 25-26: the file does not exist; return with store as it is.
LoadStoreMissing ==
    /\ pc = "start"
    /\ ~exists
    /\ pc' = "ready"
    /\ last' = LoadResult(TRUE)
    /\ lastLoad' = [valid |-> TRUE, log |-> content, idx |-> store]
    /\ recov' = [runs |-> recov.runs + 1, ok |-> TRUE]
    /\ UNCHANGED << exists, content, synced, store, handle, todo, buf, arg,
                    nev, call, acked, applied, cur, prior, nfault,
                    puts, input, exited >>

\* Line 29: open(DATA_FILE, 'r') succeeds.
LoadStoreOpen ==
    /\ pc = "start"
    /\ exists
    /\ pc' = "ld_loop"
    /\ handle' = "r"
    /\ todo' = Lines(content)
    /\ UNCHANGED << exists, content, synced, store, buf, arg, nev, last,
                    call, acked, applied, cur, prior, lastLoad, nfault,
                    recov, puts, input, exited >>

\* Line 29 raises OSError; lines 37-38 print it and load_store returns.
LoadStoreOpenError ==
    /\ pc = "start"
    /\ exists
    /\ nev < MaxEvents
    /\ nev' = nev + 1
    /\ nfault' = nfault + 1
    /\ pc' = "ready"
    /\ last' = LoadResult(FALSE)
    /\ recov' = [runs |-> recov.runs + 1, ok |-> FALSE]
    /\ UNCHANGED << exists, content, synced, store, handle, todo, buf, arg,
                    call, acked, applied, cur, prior, lastLoad,
                    puts, input, exited >>

\* Lines 30-36: one turn of the loop.
LoadStoreLine ==
    /\ pc = "ld_loop"
    /\ todo # << >>
    /\ store' = load_line(store, Head(todo))
    /\ todo' = Tail(todo)
    /\ cur' = Head(todo)
    /\ prior' = store
    /\ applied' = applied \cup LineKeys(Head(todo))
    /\ UNCHANGED << exists, content, synced, pc, handle, buf, arg, nev, last,
                    call, acked, lastLoad, nfault,
                    recov, puts, input, exited >>

\* The loop ends at the end of the file; the with block closes the file.
LoadStoreEnd ==
    /\ pc = "ld_loop"
    /\ todo = << >>
    /\ pc' = "ready"
    /\ handle' = "none"
    /\ last' = LoadResult(TRUE)
    /\ cur' = None
    /\ prior' = EmptyStore
    /\ lastLoad' = [valid |-> TRUE, log |-> content, idx |-> store]
    /\ recov' = [runs |-> recov.runs + 1, ok |-> TRUE]
    /\ UNCHANGED << exists, content, synced, store, todo, buf, arg, nev,
                    call, acked, applied, nfault,
                    puts, input, exited >>

\* Reading raises OSError in the loop: the with block closes the file,
\* lines 37-38 print the error and load_store returns with what it had read.
LoadStoreReadError ==
    /\ pc = "ld_loop"
    /\ nev < MaxEvents
    /\ nev' = nev + 1
    /\ nfault' = nfault + 1
    /\ pc' = "ready"
    /\ handle' = "none"
    /\ todo' = << >>
    /\ last' = LoadResult(FALSE)
    /\ cur' = None
    /\ prior' = EmptyStore
    /\ recov' = [runs |-> recov.runs + 1, ok |-> FALSE]
    /\ UNCHANGED << exists, content, synced, store, buf, arg, call, acked,
                    applied, lastLoad,
                    puts, input, exited >>

(***************************************************************************)
(* save_set(key, value), one action per statement that can fail.           *)
(***************************************************************************)
PutResult(clean) ==
    [op |-> "put", key |-> arg.key, value |-> arg.value, ok |-> clean,
     ret |-> None, raised |-> FALSE]

\* Line 49 with mode 'w' instead of 'a': opening empties the file.
SaveSetOpenTruncates(key, value) ==
    /\ pc = "ready"
    /\ nev < MaxEvents
    /\ nev' = nev + 1
    /\ arg' = [key |-> key, value |-> value]
    /\ last' = NoOp
    /\ call' = [store |-> store, content |-> content]
    /\ exists' = TRUE
    /\ content' = << >>
    /\ synced' = 0
    /\ handle' = "a"
    /\ pc' = "ss_write"
    /\ UNCHANGED << store, todo, buf, acked, applied, cur, prior, lastLoad,
                    nfault, recov,
                    puts, input, exited >>

\* Line 49: open(DATA_FILE, 'a') succeeds and creates the file if missing.
SaveSetOpen(key, value) ==
    /\ pc = "ready"
    /\ nev < MaxEvents
    /\ nev' = nev + 1
    /\ arg' = [key |-> key, value |-> value]
    /\ last' = NoOp
    /\ call' = [store |-> store, content |-> content]
    /\ exists' = TRUE
    /\ handle' = "a"
    /\ pc' = "ss_write"
    /\ UNCHANGED << content, synced, store, todo, buf, acked, applied, cur,
                    prior, lastLoad, nfault,
                    recov, puts, input, exited >>

\* Line 49 raises OSError.
SaveSetOpenError(key, value) ==
    /\ pc = "ready"
    /\ nev + 2 <= MaxEvents
    /\ nev' = nev + 2
    /\ nfault' = nfault + 1
    /\ arg' = [key |-> key, value |-> value]
    /\ last' = NoOp
    /\ call' = [store |-> store, content |-> content]
    /\ pc' = "ss_except"
    /\ UNCHANGED << exists, content, synced, store, handle, todo, buf, acked,
                    applied, cur, prior, lastLoad,
                    recov, puts, input, exited >>

\* Line 50: f.write(...) puts the record in the file object's buffer.
SaveSetWrite ==
    /\ pc = "ss_write"
    /\ buf' = buf \o Record(arg.key, arg.value)
    /\ pc' = "ss_flush"
    /\ UNCHANGED << exists, content, synced, store, handle, todo, arg, nev,
                    last, call, acked, applied, cur, prior, lastLoad,
                    nfault,
                    recov, puts, input, exited >>

\* n characters of the buffer are written to the file; the rest stays in
\* the buffer.
WriteSome(n) ==
    /\ content' = content \o SubSeq(buf, 1, n)
    /\ buf' = SubSeq(buf, n + 1, Len(buf))
    /\ acked' = IF n > 0 THEN Without(acked, arg.key) ELSE acked

\* Line 50 raises OSError: the record was too large for the buffer, writing
\* it through failed after n of its characters and the rest is dropped.
SaveSetWriteError ==
    /\ pc = "ss_write"
    /\ nev < MaxEvents
    /\ nev' = nev + 1
    /\ nfault' = nfault + 1
    /\ \E n \in 0..(Len(Record(arg.key, arg.value)) - 1) :
          /\ content' = content \o SubSeq(Record(arg.key, arg.value), 1, n)
          /\ acked' = IF n > 0 THEN Without(acked, arg.key) ELSE acked
    /\ pc' = "ss_unwind"
    /\ UNCHANGED << exists, synced, store, handle, todo, buf, arg, last, call,
                    applied, cur, prior, lastLoad,
                    recov, puts, input, exited >>

\* Line 51: f.flush() writes the buffer to the file.
SaveSetFlush ==
    /\ pc = "ss_flush"
    /\ WriteSome(Len(buf))
    /\ pc' = "ss_fsync"
    /\ UNCHANGED << exists, synced, store, handle, todo, arg, nev, last,
                    call, applied, cur, prior, lastLoad, nfault,
                    recov, puts, input, exited >>

\* Line 51 raises OSError after writing n characters of the buffer, not all.
SaveSetFlushError ==
    /\ pc = "ss_flush"
    /\ nev < MaxEvents
    /\ nev' = nev + 1
    /\ nfault' = nfault + 1
    /\ \E n \in 0..(Len(buf) - 1) : WriteSome(n)
    /\ pc' = "ss_unwind"
    /\ UNCHANGED << exists, synced, store, handle, todo, arg, last, call,
                    applied, cur, prior, lastLoad,
                    recov, puts, input, exited >>

\* Line 52: os.fsync forces the file to stable storage.
SaveSetFsync ==
    /\ pc = "ss_fsync"
    /\ synced' = Len(content)
    /\ pc' = "ss_close"
    /\ UNCHANGED << exists, content, store, handle, todo, buf, arg, nev,
                    last, call, acked, applied, cur, prior, lastLoad,
                    nfault,
                    recov, puts, input, exited >>

\* Line 52 raises OSError.
SaveSetFsyncError ==
    /\ pc = "ss_fsync"
    /\ nev < MaxEvents
    /\ nev' = nev + 1
    /\ nfault' = nfault + 1
    /\ pc' = "ss_unwind"
    /\ UNCHANGED << exists, content, synced, store, handle, todo, buf, arg,
                    last, call, acked, applied, cur, prior, lastLoad,
                    recov, puts, input, exited >>

\* The with block ends normally and closes the file.
SaveSetClose ==
    /\ pc = "ss_close"
    /\ handle' = "none"
    /\ pc' = "ss_store"
    /\ UNCHANGED << exists, content, synced, store, todo, buf, arg, nev,
                    last, call, acked, applied, cur, prior, lastLoad,
                    nfault,
                    recov, puts, input, exited >>

\* Closing the file raises OSError; the file object is closed all the same.
SaveSetCloseError ==
    /\ pc = "ss_close"
    /\ nev < MaxEvents
    /\ nev' = nev + 1
    /\ nfault' = nfault + 1
    /\ handle' = "none"
    /\ pc' = "ss_except"
    /\ UNCHANGED << exists, content, synced, store, todo, buf, arg, last,
                    call, acked, applied, cur, prior, lastLoad,
                    recov, puts, input, exited >>

\* Leaving the block on an OSError without closing the file, as a plain
\* f = open(...) without with would.
SaveSetUnwindLeaks ==
    /\ pc = "ss_unwind"
    /\ pc' = "ss_except"
    /\ UNCHANGED << exists, content, synced, store, handle, todo, buf, arg,
                    nev, last, call, acked, applied, cur, prior, lastLoad,
                    nfault, recov,
                    puts, input, exited >>

\* The with block is left by an OSError: close() flushes what is still in
\* the buffer, which may fail again after some of it, and closes the file.
SaveSetUnwind ==
    /\ pc = "ss_unwind"
    /\ \E n \in 0..Len(buf) :
          /\ content' = content \o SubSeq(buf, 1, n)
          /\ acked' = IF n > 0 THEN Without(acked, arg.key) ELSE acked
    /\ buf' = << >>
    /\ handle' = "none"
    /\ pc' = "ss_except"
    /\ UNCHANGED << exists, synced, store, todo, arg, nev, last, call,
                    applied, cur, prior, lastLoad, nfault,
                    recov, puts, input, exited >>

\* Line 54 storing the value without its surrounding whitespace.
SaveSetStoreStripped ==
    /\ pc = "ss_store"
    /\ store' = SetItem(store, arg.key, strip(arg.value))
    /\ acked' = SetItem(acked, arg.key, arg.value)
    /\ applied' = applied \cup {arg.key}
    /\ last' = PutResult(TRUE)
    /\ pc' = "ready"
    /\ puts' = [puts EXCEPT !.ok = @ \cup {<< arg.key, arg.value >>}]
    /\ UNCHANGED << exists, content, synced, handle, todo, buf, arg, nev,
                    call, cur, prior, lastLoad, nfault,
                    recov, input, exited >>

\* Line 54: store[key] = value, and save_set returns None.
SaveSetStore ==
    /\ pc = "ss_store"
    /\ store' = SetItem(store, arg.key, arg.value)
    /\ acked' = SetItem(acked, arg.key, arg.value)
    /\ applied' = applied \cup {arg.key}
    /\ last' = PutResult(TRUE)
    /\ pc' = "ready"
    /\ puts' = [puts EXCEPT !.ok = @ \cup {<< arg.key, arg.value >>}]
    /\ UNCHANGED << exists, content, synced, handle, todo, buf, arg, nev,
                    call, cur, prior, lastLoad, nfault,
                    recov, input, exited >>

\* The handler of lines 55-56 followed by the update of line 54, as if the
\* update stood after the try statement.
SaveSetExceptStores ==
    /\ pc = "ss_except"
    /\ store' = SetItem(store, arg.key, arg.value)
    /\ last' = PutResult(FALSE)
    /\ pc' = "ready"
    /\ puts' = [puts EXCEPT !.failed = @ \cup {<< arg.key, arg.value >>}]
    /\ UNCHANGED << exists, content, synced, handle, todo, buf, arg, nev,
                    call, acked, applied, cur, prior, lastLoad, nfault,
                    recov, input, exited >>

\* Lines 55-56: the OSError is caught and printed, and save_set returns
\* None as it does after a successful write.
SaveSetExcept ==
    /\ pc = "ss_except"
    /\ last' = PutResult(FALSE)
    /\ pc' = "ready"
    /\ puts' = [puts EXCEPT !.failed = @ \cup {<< arg.key, arg.value >>}]
    /\ UNCHANGED << exists, content, synced, store, handle, todo, buf, arg,
                    nev, call, acked, applied, cur, prior, lastLoad, nfault,
                    recov, input, exited >>

(***************************************************************************)
(* get_value(key).                                                         *)
(***************************************************************************)
\* A get_value that answers from the file instead of the dict.
GetValueFromLog(key) ==
    /\ pc = "ready"
    /\ call' = NoCall
    /\ last' = [op |-> "get", key |-> key, value |-> << >>, ok |-> TRUE,
                ret |-> DictGet(load_lines(EmptyStore, Lines(content)), key),
                raised |-> FALSE]
    /\ UNCHANGED << exists, content, synced, store, pc, handle, todo, buf,
                    arg, nev, acked, applied, cur, prior, lastLoad, nfault,
                    recov, puts, input, exited >>

GetValue(key) ==
    /\ pc = "ready"
    /\ call' = NoCall
    /\ last' = [op |-> "get", key |-> key, value |-> << >>, ok |-> TRUE,
                ret |-> get_value(key), raised |-> FALSE]
    /\ UNCHANGED << exists, content, synced, store, pc, handle, todo, buf,
                    arg, nev, acked, applied, cur, prior, lastLoad, nfault,
                    recov, puts, input, exited >>

(***************************************************************************)
(* The process ends and the program is started again.                      *)
(***************************************************************************)
\* A process whose __main__ goes to the command loop without load_store.
NewProcessNoLoad ==
    /\ store' = FreshStore
    /\ pc' = "ready"
    /\ handle' = "none"
    /\ todo' = << >>
    /\ buf' = << >>
    /\ arg' = NoArg
    /\ last' = NoOp
    /\ call' = NoCall
    /\ applied' = {}
    /\ cur' = None
    /\ prior' = EmptyStore
    /\ recov' = NoRecov

\* What a new process starts with, whatever ended the one before.
NewProcess ==
    /\ store' = FreshStore
    /\ pc' = "start"
    /\ handle' = "none"
    /\ todo' = << >>
    /\ buf' = << >>
    /\ arg' = NoArg
    /\ last' = NoOp
    /\ call' = NoCall
    /\ applied' = {}
    /\ cur' = None
    /\ prior' = EmptyStore
    /\ recov' = NoRecov

\* The command loop ends (EXIT or end of input) between two operations.
Restart ==
    /\ pc = "ready"
    /\ NewProcess
    /\ UNCHANGED << exists, content, synced, nev, acked, lastLoad, nfault,
                    puts, input, exited >>

\* The process is killed inside load_store or save_set: what the file
\* object had buffered is lost, what was written to the file stays.
Kill ==
    /\ pc \notin {"start", "ready"}
    /\ nev < MaxEvents
    /\ nev' = nev + 1
    /\ nfault' = nfault + 1
    /\ NewProcess
    /\ UNCHANGED << exists, content, synced, acked, lastLoad,
                    puts, input, exited >>

\* The machine loses power: of the file, the synced prefix survives and
\* any part of what was written after it.
PowerLoss ==
    /\ pc # "start"
    /\ nev < MaxEvents
    /\ nev' = nev + 1
    /\ nfault' = nfault + 1
    /\ \E n \in synced..Len(content) :
          /\ content' = SubSeq(content, 1, n)
          /\ synced' = n
    /\ NewProcess
    /\ UNCHANGED << exists, acked, lastLoad,
                    puts, input, exited >>

Next ==
    \/ LoadStoreMissing
    \/ LoadStoreOpen
    \/ LoadStoreOpenError
    \/ LoadStoreLine
    \/ LoadStoreEnd
    \/ LoadStoreReadError
    \/ \E key \in KeyArgs, value \in ValueArgs : SaveSetOpen(key, value)
    \/ \E key \in KeyArgs, value \in ValueArgs : SaveSetOpenError(key, value)
    \/ SaveSetWrite
    \/ SaveSetWriteError
    \/ SaveSetFlush
    \/ SaveSetFlushError
    \/ SaveSetFsync
    \/ SaveSetFsyncError
    \/ SaveSetClose
    \/ SaveSetCloseError
    \/ SaveSetUnwind
    \/ SaveSetStore
    \/ SaveSetExcept
    \/ \E key \in KeyArgs : GetValue(key)
    \/ Restart
    \/ Kill
    \/ PowerLoss

Spec == Init /\ [][Next]_vars

(***************************************************************************)
(* The replay specification: load_store run on a data.db that holds any    *)
(* of the logs below, the lines a log file may hold whoever wrote them.    *)
(***************************************************************************)
LinePool ==
    { << "S", "E", "T", " ", "a", " ", "1" >>,
      << "S", "E", "T", " ", "b", " ", "1", " ", "2" >>,
      << " ", "S", "E", "T", " ", "a", " ", "2", " " >>,
      << >>,
      << " ", "\t" >>,
      << "G", "A", "R", "B", "A", "G", "E" >>,
      << "G", "E", "T", " ", "a", " ", "1" >>,
      << "S", "E", "T", "a", " ", "1", " ", "2" >>,
      << "S", "E", "T", " ", "a" >>,
      << "S", "E", "T" >>,
      << "S", "E", "T", "\t", "a", " ", "2" >> }

\* The lines, each ended by "\n".
RECURSIVE JoinLines(_)
JoinLines(ls) ==
    IF ls = << >> THEN << >> ELSE Head(ls) \o << "\n" >> \o JoinLines(Tail(ls))

\* Logs of at most MaxLines lines, the last one with or without its "\n".
ReplayLogs ==
    LET full == { JoinLines(ls) :
                    ls \in UNION { [1..n -> LinePool] : n \in 0..MaxLines } }
    IN  full \cup { SubSeq(c, 1, Len(c) - 1) : c \in full \ { << >> } }

InitReplay ==
    /\ exists \in BOOLEAN
    /\ content \in (IF exists THEN ReplayLogs ELSE { << >> })
    /\ synced = Len(content)
    /\ store = EmptyStore
    /\ pc = "start"
    /\ handle = "none"
    /\ todo = << >>
    /\ buf = << >>
    /\ arg = NoArg
    /\ nev = 0
    /\ nfault = 0
    /\ last = NoOp
    /\ call = NoCall
    /\ acked = EmptyStore
    /\ applied = {}
    /\ cur = None
    /\ prior = EmptyStore
    /\ lastLoad = NoLoad
    /\ recov = NoRecov
    /\ puts = NoPuts
    /\ input = None
    /\ exited = NoExit

NextReplay ==
    \/ LoadStoreMissing
    \/ LoadStoreOpen
    \/ LoadStoreLine
    \/ LoadStoreEnd
    \/ \E key \in KeyArgs : GetValue(key)
    \/ Restart

SpecReplay == InitReplay /\ [][NextReplay]_vars

(***************************************************************************)
(* The command loop of __main__ (lines 82-118), with no I/O error: every   *)
(* step from "ready" reads one line with input() and dispatches it.        *)
(***************************************************************************)
\* The lines input() may return: commands with and without surrounding
\* and repeated whitespace, and lines that are no command.
InputLines ==
    { << "S", "E", "T", " ", "a", " ", "1" >>,
      << " ", "S", "E", "T", " ", "b", " ", " ", "1", " ", "2", " " >>,
      << "S", "E", "T", "\t", "a", " ", "N", "U", "L", "L" >>,
      << "G", "E", "T", " ", "a" >>,
      << "G", "E", "T", " ", "b", " " >>,
      << "G", "E", "T" >>,
      << "G", "E", "T", " ", "a", " ", "b" >>,
      << "S", "E", "T", " ", "a" >>,
      << "F", "O", "O", " ", "a", " ", "1" >>,
      << "g", "e", "t", " ", "a" >>,
      << >>,
      << " ", "\t" >>,
      << "E", "X", "I", "T" >>,
      << " ", "E", "X", "I", "T", " " >>,
      << "E", "X", "I", "T", " ", "a" >> }

\* The line without the strip of line 92.
InputLineRaw(raw) == raw

\* Line 92: line = line.strip().
InputLine(raw) == strip(raw)

\* Line 97: parts = line.split(None, 2).
Parts(raw) == split(InputLine(raw), 2)

\* Lines 89-95: a line that is not empty and, stripped, is EXIT.
IsExit(raw) == raw # << >> /\ InputLine(raw) = CMD_EXIT

\* Line 102: len(parts) == 2 and parts[0] == CMD_GET.
IsGet(raw) ==
    /\ raw # << >> /\ ~IsExit(raw)
    /\ Len(Parts(raw)) = 2 /\ Parts(raw)[1] = CMD_GET

\* The test of line 112 without the comparison of parts[0].
IsSetAny(raw) ==
    /\ raw # << >> /\ ~IsExit(raw) /\ ~IsGet(raw)
    /\ Len(Parts(raw)) >= 3

\* Line 112: elif len(parts) >= 3 and parts[0] == CMD_SET.
IsSet(raw) ==
    /\ raw # << >> /\ ~IsExit(raw) /\ ~IsGet(raw)
    /\ Len(Parts(raw)) >= 3 /\ Parts(raw)[1] = CMD_SET

\* Lines 102-107: GET <key> calls get_value(parts[1]) and prints the value,
\* or an empty line for None.
CommandGet(raw) ==
    /\ pc = "ready"
    /\ IsGet(raw)
    /\ input' = raw
    /\ call' = NoCall
    /\ last' = [op |-> "get", key |-> Parts(raw)[2], value |-> << >>,
                ok |-> TRUE, ret |-> get_value(Parts(raw)[2]),
                raised |-> FALSE]
    /\ UNCHANGED << exists, content, synced, store, pc, handle, todo, buf,
                    arg, nev, acked, applied, cur, prior, lastLoad, nfault,
                    recov, puts, exited >>

\* Lines 112-114: SET <key> <value> calls save_set(parts[1], parts[2]),
\* which opens the file (line 49); the steps of save_set follow.
CommandSet(raw) ==
    /\ pc = "ready"
    /\ IsSet(raw)
    /\ nev < MaxEvents
    /\ nev' = nev + 1
    /\ input' = raw
    /\ arg' = [key |-> Parts(raw)[2], value |-> Parts(raw)[3]]
    /\ last' = NoOp
    /\ call' = [store |-> store, content |-> content]
    /\ exists' = TRUE
    /\ handle' = "a"
    /\ pc' = "ss_write"
    /\ UNCHANGED << content, synced, store, todo, buf, acked, applied, cur,
                    prior, lastLoad, nfault, recov, puts, exited >>

\* Lines 89-90 and 118: an empty line, or a line that is neither EXIT nor
\* a GET nor a SET command, is passed over and the loop reads the next.
CommandIgnored(raw) ==
    /\ pc = "ready"
    /\ ~IsExit(raw) /\ ~IsGet(raw) /\ ~IsSet(raw)
    /\ input' = raw
    /\ UNCHANGED << exists, content, synced, store, pc, handle, todo, buf,
                    arg, nev, nfault, last, call, acked, applied, cur, prior,
                    lastLoad, recov, puts, exited >>

\* Lines 94-95: EXIT leaves the loop and the process ends; the program is
\* started again.
CommandExit(raw) ==
    /\ pc = "ready"
    /\ IsExit(raw)
    /\ input' = raw
    /\ exited' = [valid |-> TRUE, idx |-> store]
    /\ NewProcess
    /\ UNCHANGED << exists, content, synced, nev, acked, lastLoad, nfault,
                    puts >>

\* Lines 86-87: input() raises EOFError at the end of the input and the
\* loop is left as by EXIT.
EndOfInput ==
    /\ pc = "ready"
    /\ exited' = [valid |-> TRUE, idx |-> store]
    /\ NewProcess
    /\ input' = None
    /\ UNCHANGED << exists, content, synced, nev, acked, lastLoad, nfault,
                    puts >>

NextLoop ==
    \/ LoadStoreMissing
    \/ LoadStoreOpen
    \/ LoadStoreLine
    \/ LoadStoreEnd
    \/ \E raw \in InputLines : CommandGet(raw)
    \/ \E raw \in InputLines : CommandSet(raw)
    \/ \E raw \in InputLines : CommandIgnored(raw)
    \/ \E raw \in InputLines : CommandExit(raw)
    \/ EndOfInput
    \/ SaveSetWrite
    \/ SaveSetFlush
    \/ SaveSetFsync
    \/ SaveSetClose
    \/ SaveSetStore

SpecLoop == Init /\ [][NextLoop]_vars

(***************************************************************************)
(* Properties.                                                             *)
(***************************************************************************)
HasSpace(s) == \E i \in 1..Len(s) : IsSpace(s[i])
HasTerminator(s) == \E i \in 1..Len(s) : s[i] \in {"\n", "\r"}

\* C1: last write wins.  With no I/O error, kill or power loss so far, and
\* whatever restarts and runs of load_store there were, between operations
\* get_value(k) is the value of the last save_set for k, for every key k
\* that save_set was called with.
LastWriteWins ==
    (pc = "ready" /\ nfault = 0) =>
        \A k \in DOMAIN acked : get_value(k) = acked[k]

\* C2: when save_set ends after an OSError at open, write, flush, fsync or
\* close, store is what it was when save_set was called: the key keeps the
\* value it had (or stays absent) and no other key changes.
FailedPutLeavesIndex ==
    (last.op = "put" /\ ~last.ok) => store = call.store

\* C2, witness: a save_set failed after its whole record reached the file,
\* for a key that holds another value in store.
FailedPutWitness ==
    /\ last.op = "put" /\ ~last.ok
    /\ content = call.content \o Record(last.key, last.value)
    /\ last.key \in DOMAIN store
    /\ store[last.key] # last.value

\* C3: durability of acknowledged writes.  After a restart and a run of
\* load_store that read the whole file, get_value(k) is the value of the
\* last save_set for k that updated store, unless a later save_set for k
\* put characters in the file.
AckedSurvivesRestart ==
    (pc = "ready" /\ last.op = "load" /\ last.ok) =>
        \A k \in DOMAIN acked : get_value(k) = acked[k]

\* C4: between operations store is the replay of the current file from an
\* empty dict, in file order.
IndexIsReplayOfLog ==
    pc = "ready" => store = load_lines(EmptyStore, Lines(content))

\* C5: round trip.  Right after a save_set(key, value) that updated store,
\* for a key without whitespace and a value without line terminator,
\* get_value(key) is exactly value.
RoundTrip ==
    (last.op = "put" /\ last.ok /\ ~HasSpace(last.key)
        /\ ~HasTerminator(last.value)) =>
        get_value(last.key) = last.value

\* C5, witness: such a save_set with a value that has an interior space,
\* for a key that held a value before.
RoundTripWitness ==
    /\ last.op = "put" /\ last.ok
    /\ last.key = << "a" >>
    /\ last.value = << "1", " ", "2" >>
    /\ last.key \in DOMAIN call.store

\* C6: the absent-key contract.  get_value(k) returned None exactly when
\* this process has assigned no value to k, in load_store or in save_set;
\* for such a key it returned neither "NULL" nor the empty string, and for
\* a key whose value is "NULL" it returned "NULL", which is not None.
AbsentKeyContract ==
    last.op = "get" =>
        /\ (last.ret = None) <=> (last.key \notin applied)
        /\ last.key \notin applied => last.ret \notin {NULL, << >>}
        /\ (last.key \in DOMAIN store /\ store[last.key] = NULL) =>
               (last.ret = NULL /\ last.ret # None)

\* C6, witness: get_value returned the stored value "NULL" while another
\* key is absent.
AbsentKeyWitness ==
    /\ last.op = "get"
    /\ last.ret = NULL
    /\ \E k \in KeyArgs : k \notin applied /\ get_value(k) = None

\* Every line of the file has been read in this run of load_store (or
\* there is no file to read).
ReadWholeLog ==
    \/ pc = "ld_loop" /\ todo = << >>
    \/ pc = "start" /\ ~exists

Tokens(line) == split(line, Len(line))

\* A line load_store has to skip: blank, or its first field is not SET, or
\* it is a SET line with fewer than three fields.
Malformed(line) ==
    LET t == Tokens(line) IN
    \/ t = << >>
    \/ t[1] # CMD_SET
    \/ Len(t) < 3

\* A line of the documented form "SET <key> <value>": SET, a space, a key
\* and a value.
WellFormed(line) ==
    LET t == Tokens(line) IN
    /\ Len(t) >= 3
    /\ t[1] = CMD_SET
    /\ strip(line)[4] = " "

\* C8: malformed-line tolerance.  Reading a malformed line leaves store as
\* it was; reading a well-formed line, before or after a malformed one,
\* gives its key the fields after the key as value and changes no other key.
MalformedLineSkipped ==
    (pc = "ld_loop" /\ cur # None) =>
        /\ Malformed(cur) => store = prior
        /\ WellFormed(cur) =>
              LET t == Tokens(cur) IN
              /\ DOMAIN store = (DOMAIN prior) \cup {t[2]}
              /\ Tokens(store[t[2]]) = SubSeq(t, 3, Len(t))
              /\ \A k \in (DOMAIN prior) \ {t[2]} : store[k] = prior[k]

\* C8, witness: load_store came to the end of a log with a well-formed
\* line, a line GARBAGE and another well-formed line, and holds both keys.
MalformedLineWitness ==
    /\ pc = "ready" /\ last.op = "load" /\ last.ok
    /\ content = << "S", "E", "T", " ", "a", " ", "1", "\n",
                    "G", "A", "R", "B", "A", "G", "E", "\n",
                    "S", "E", "T", " ", "b", " ", "1", " ", "2", "\n" >>
    /\ DOMAIN store = { << "a" >>, << "b" >> }
    /\ store[<< "a" >>] = << "1" >>
    /\ store[<< "b" >>] = << "1", " ", "2" >>

\* C9: a save_set with a key that contains whitespace ends in an error and
\* leaves the file and store as they were when it was called (stated for
\* the calls that meet no I/O error, where nothing else can change them).
InvalidKeyRejected ==
    (last.op = "put" /\ HasSpace(last.key) /\ nfault = 0) =>
        /\ ~last.ok \/ last.raised
        /\ content = call.content
        /\ store = call.store

\* C10: a save_set whose write to the file failed does not return to its
\* caller as a successful one does: it raises, or returns something else
\* than the None of a successful call.
WriteFailureSurfaced ==
    (last.op = "put" /\ ~last.ok) => (last.raised \/ last.ret # None)

\* The process is past load_store: between operations or inside save_set.
Ready == pc \notin {"start", "ld_loop"}

\* C11: a read failure aborts recovery.  In a process whose load_store met
\* an OSError at open or while reading, the engine does not become ready:
\* no get_value or save_set is served from the lines read before the error.
ReadFailureAborts ==
    (recov.runs > 0 /\ ~recov.ok) =>
        (~Ready /\ last.op \notin {"get", "put"})

\* C12: recovery without a log file.  When data.db does not exist,
\* load_store returns without reporting an error, store is empty and
\* get_value returns None for every key.
MissingLogIsEmpty ==
    (~exists /\ recov.runs > 0) =>
        /\ recov.ok
        /\ store = EmptyStore
        /\ \A k \in KeyArgs : get_value(k) = None
        /\ last.op = "get" => last.ret = None

\* C12, witness: get_value answered in a process that found no data.db.
MissingLogWitness ==
    /\ ~exists
    /\ recov = [runs |-> 1, ok |-> TRUE]
    /\ last.op = "get"
    /\ last.ret = None

\* The text is a sequence of whole records "SET key value\n" of save_set.
RECURSIVE WholeRecords(_)
WholeRecords(c) ==
    \/ c = << >>
    \/ \E k \in KeyArgs, v \in ValueArgs :
          /\ startswith(c, Record(k, v))
          /\ WholeRecords(SubSeq(c, Len(Record(k, v)) + 1, Len(c)))

\* C13: record atomicity.  Outside save_set, whether the last save_set
\* returned normally, met an OSError or was cut off by a crash, the file
\* holds whole records only: each attempt left it unchanged or added its
\* whole line.
RecordAtomicity ==
    pc \in {"start", "ld_loop", "ready"} => WholeRecords(content)

\* C14: get_value is a pure lookup.  A step that completes a get_value
\* changes neither the file nor store, and its result is store.get(key).
GetIsPureLookup ==
    [][last'.op = "get" =>
          /\ UNCHANGED << exists, content, synced, store >>
          /\ last'.ret = DictGet(store, last'.key)]_vars

\* C14, witness: get_value returned something else than a replay of the
\* file gives for the key.
GetIsPureLookupWitness ==
    /\ last.op = "get"
    /\ last.ret # DictGet(load_lines(EmptyStore, Lines(content)), last.key)

\* C15: recovery runs once, before the first operation.  load_store has
\* returned exactly once in every process that is past it, not at all in a
\* process that is not, never twice, and every get_value and save_set was
\* served after it.
RecoveryOnceBeforeOps ==
    /\ recov.runs <= 1
    /\ Ready <=> (recov.runs = 1)
    /\ last.op \in {"get", "put"} => recov.runs = 1

\* C15, witness: a process that read a log with records in load_store and
\* then answered a get_value with a value.
RecoveryOnceWitness ==
    /\ recov.runs = 1
    /\ lastLoad.valid /\ lastLoad.log = content /\ content # << >>
    /\ last.op = "get"
    /\ last.ret # None

\* The part of the file that is on stable storage.
Durable == SubSeq(content, 1, synced)

\* The line is a record for key k with value v: the line save_set writes
\* for them, or a line load_store reads as them.
Backs(line, k, v) ==
    \/ line \o << "\n" >> = Record(k, v)
    \/ load_line(EmptyStore, line) = SetItem(EmptyStore, k, v)

\* C16: write-ahead ordering.  In every state, steps inside save_set
\* included, every entry of store is backed by a record for its key and
\* value in the part of the file that is on stable storage.
WriteAhead ==
    \A k \in DOMAIN store :
        \E i \in 1..Len(Lines(Durable)) : Backs(Lines(Durable)[i], k, store[k])

\* C17: the codec preserves the value.  The record save_set has written
\* for a key without whitespace and a value without line terminator is
\* read back by load_store's loop as that key with exactly that value.
CodecRoundTrip ==
    (pc = "ss_flush" /\ ~HasSpace(arg.key) /\ ~HasTerminator(arg.value)) =>
        load_lines(EmptyStore, Lines(buf)) =
            SetItem(EmptyStore, arg.key, arg.value)

\* All elements of a sequence but the last.
Front(q) == SubSeq(q, 1, Len(q) - 1)

\* C18: a trailing partial line is ignored.  When load_store has read
\* the whole of a file that ends in a line without terminator, store is
\* what the complete lines before that line give.
TrailingPartialIgnored ==
    (pc = "ready" /\ last.op = "load" /\ last.ok
        /\ content # << >> /\ content[Len(content)] # "\n") =>
        store = load_lines(EmptyStore, Front(Lines(content)))

\* p is a prefix of q.
IsPrefix(p, q) == Len(p) <= Len(q) /\ SubSeq(q, 1, Len(p)) = p

\* C19: the file is append-only.  Every step of the program leaves the
\* old content as a prefix of the new (only a power loss, which is no step
\* of the program, takes unsynced characters away); load_store and
\* get_value leave it as it is; and a save_set that met no error has
\* added exactly its one line.
AppendOnly ==
    /\ []((last.op = "put" /\ last.ok /\ ~HasTerminator(last.value)) =>
             content = call.content \o Record(last.key, last.value))
    /\ [][PowerLoss \/
             /\ IsPrefix(content, content')
             /\ (pc \in {"start", "ld_loop"} \/ last'.op = "get") =>
                    content' = content]_vars

\* C19, witness: a save_set added its line to a file that held records.
AppendOnlyWitness ==
    /\ last.op = "put" /\ last.ok
    /\ call.content # << >>
    /\ content = call.content \o Record(last.key, last.value)

\* C20: the file handle is released.  Whenever load_store or save_set has
\* returned, normally or after an OSError, no file object is open.
HandleReleased ==
    pc = "ready" => handle = "none"

\* C20, witness: save_set returned after an OSError that came when
\* characters had been written to the open file.
HandleReleasedWitness ==
    /\ last.op = "put" /\ ~last.ok
    /\ content # call.content
    /\ handle = "none"

\* C22: a failed put stays invisible.  When a process has run load_store,
\* get_value(k) is not v for any save_set(k, v) that ended in the except
\* clause before, at whatever step its OSError came, unless a save_set(k, v)
\* has updated store.
FailedPutStaysInvisible ==
    (pc = "ready" /\ last.op = "load") =>
        \A p \in puts.failed \ puts.ok : get_value(p[1]) # p[2]

\* The record of the last save_set for k that updated store stands in the
\* file behind a character that is no line terminator: it was appended to
\* a partial line.
AckedAfterPartial(k) ==
    /\ k \in DOMAIN acked
    /\ LET r == Record(k, acked[k]) IN
       \E i \in 2..Len(content) :
           /\ i + Len(r) - 1 <= Len(content)
           /\ content[i - 1] # "\n"
           /\ SubSeq(content, i, i + Len(r) - 1) = r

\* C23: puts after a partial trailing line are recovered.  When load_store
\* has read the whole file, every key whose last acknowledged save_set was
\* appended to a partial line has that save_set's value (for keys without
\* whitespace and values without surrounding whitespace, which the codec
\* keeps), and store then holds no key that save_set was never called with.
PartialLineKeepsAcked ==
    (pc = "ready" /\ last.op = "load" /\ last.ok) =>
        /\ \A k \in KeyArgs :
              (AckedAfterPartial(k) /\ ~HasSpace(k)
                  /\ strip(acked[k]) = acked[k]) =>
                  get_value(k) = acked[k]
        /\ (\E k \in KeyArgs : AckedAfterPartial(k)) =>
              DOMAIN store \subseteq KeyArgs

\* The line is none of the three commands: not EXIT, not GET with exactly
\* one argument, not SET with a key and a value.
NoCommand(line) ==
    LET t == Tokens(line) IN
    /\ t # << CMD_EXIT >>
    /\ ~(Len(t) = 2 /\ t[1] = CMD_GET)
    /\ ~(Len(t) >= 3 /\ t[1] = CMD_SET)

\* C21: lines that are no command change nothing.  A step of the command
\* loop that reads such a line leaves the file and store as they are and
\* the loop goes on to read the next line.
InvalidLineIgnored ==
    [][(pc = "ready" /\ input' # None /\ NoCommand(input')) =>
          /\ UNCHANGED << exists, content, synced, store >>
          /\ pc' = "ready"]_vars

\* C21, witness: the loop has passed over GET with two arguments in a
\* process whose store holds a key.
InvalidLineWitness ==
    /\ pc = "ready"
    /\ input = << "G", "E", "T", " ", "a", " ", "b" >>
    /\ store # EmptyStore
    /\ last.op = "put"

\* C24: restart equivalence through the command loop.  With no I/O error,
\* the store load_store builds in a new process is the store the process
\* before it held when it left the loop.
RestartEquivalence ==
    (pc = "ready" /\ last.op = "load" /\ exited.valid) =>
        store = exited.idx

\* C24, witness: a new process has rebuilt a store of two keys, one with
\* a value of two words.
RestartEquivalenceWitness ==
    /\ pc = "ready" /\ last.op = "load" /\ exited.valid
    /\ DOMAIN store = { << "a" >>, << "b" >> }
    /\ store[<< "b" >>] = << "1", " ", "2" >>

=============================================================================
